---- MODULE Spec2Model ----
(***************************************************************************)
(* ContentForge browser client: the routing table, the authentication     *)
(* gate of the application shell, the component-local state of the create, *)
(* preview, settings, my-reports and templates views, and the setTimeout   *)
(* timers behind the simulated generate / publish / save operations.       *)
(*                                                                         *)
(* Text is a sequence of one-character strings.  A location is a sequence  *)
(* of path segments.  Time advances in ticks of 500 ms, the greatest       *)
(* common divisor of the delays the code passes to setTimeout.             *)
(***************************************************************************)
EXTENDS Integers, Sequences, FiniteSets, TLC

(***************************************************************************)
(* Bounds of the model.                                                    *)
(***************************************************************************)
\* longest text typed into a search box
MaxQueryLen == 2
\* most segments of a location matched against the routing table
MaxPathLen == 3
\* most timers pending at once
MaxTimers == 2
\* most entries of the session history that is followed
MaxEntries == 3

(***************************************************************************)
(* Delays handed to setTimeout, in ticks of 500 ms.                        *)
(***************************************************************************)
\* part_001:27  setTimeout(resolve, 2000)
GenerateDelay == 4
\* part_002:34  setTimeout(resolve, 1500)
PublishDelay == 3
\* part_002:272 setTimeout(resolve, 1000)
SaveDelay == 2
\* part_002:275 setTimeout(() => setSaved(false), 2000)
SavedResetDelay == 4

NULL == "null"

(***************************************************************************)
(* String.prototype functions used by the views.                           *)
(***************************************************************************)
\* characters that may be typed into a search box
QueryChars == {"a", "A", "b", "B"}

UpperLetters ==
  << "A", "B", "C", "D", "E", "F", "G", "H", "I", "J", "K", "L", "M",
     "N", "O", "P", "Q", "R", "S", "T", "U", "V", "W", "X", "Y", "Z" >>

LowerLetters ==
  << "a", "b", "c", "d", "e", "f", "g", "h", "i", "j", "k", "l", "m",
     "n", "o", "p", "q", "r", "s", "t", "u", "v", "w", "x", "y", "z" >>

\* String.prototype.toLowerCase on one character
LowerChar(c) ==
  IF \E i \in 1..Len(UpperLetters) : UpperLetters[i] = c
    THEN LowerLetters[CHOOSE i \in 1..Len(UpperLetters) : UpperLetters[i] = c]
    ELSE c

\* String.prototype.toLowerCase
toLowerCase(s) == [i \in 1..Len(s) |-> LowerChar(s[i])]

\* String.prototype.includes: q occurs in s at some offset
includes(s, q) ==
  \E k \in 0..(Len(s) - Len(q)) : SubSeq(s, k + 1, k + Len(q)) = q

IsSpace(c) == c \in {" ", "\n", "\t"}

RECURSIVE trimStart(_)
trimStart(s) ==
  IF s # <<>> /\ IsSpace(Head(s)) THEN trimStart(Tail(s)) ELSE s

RECURSIVE trimEnd(_)
trimEnd(s) ==
  IF s # <<>> /\ IsSpace(s[Len(s)]) THEN trimEnd(SubSeq(s, 1, Len(s) - 1)) ELSE s

\* String.prototype.trim
trim(s) == trimEnd(trimStart(s))

\* JavaScript falsiness of a string-or-null value (!x)
Falsy(x) == x = NULL \/ x = ""

\* all texts over an alphabet up to a length
RECURSIVE TextsUpTo(_, _)
TextsUpTo(chars, n) ==
  IF n = 0 THEN {<<>>}
  ELSE LET shorter == TextsUpTo(chars, n - 1)
       IN  shorter \cup {Append(t, c) : t \in shorter, c \in chars}

Queries == TextsUpTo(QueryChars, MaxQueryLen)

\* the searches tried while timers run
SampleQueries == { <<>>, <<"a", "B">> }

(***************************************************************************)
(* Fixtures of @/lib/mockData: display records with the fields the views   *)
(* read.                                                                   *)
(***************************************************************************)
MockReportsFixture ==
  << [id |-> "1", title |-> <<"Q", "a", "b">>, createdAt |-> "2024-01-15",
      status |-> "published", template |-> "Marketing Report"],
     [id |-> "2", title |-> <<"S", "a", "B", "a">>, createdAt |-> "2024-01-14",
      status |-> "draft", template |-> NULL],
     [id |-> "3", title |-> <<"b", "A">>, createdAt |-> "2024-01-12",
      status |-> "published", template |-> "Sales Summary"],
     [id |-> "4", title |-> <<"a", "a", "b">>, createdAt |-> "2024-01-10",
      status |-> "draft", template |-> NULL] >>

MockTemplatesFixture ==
  << [id |-> "t1", name |-> <<"A", "b", "a">>, category |-> "Marketing",
      description |-> <<"b", "b">>],
     [id |-> "t2", name |-> <<"S", "a">>, category |-> "Sales",
      description |-> <<"a", "B", "b">>],
     [id |-> "t3", name |-> <<"B", "a", "b">>, category |-> "Marketing",
      description |-> <<"q", "A">>],
     [id |-> "t4", name |-> <<"b", "B">>, category |-> "Finance",
      description |-> <<"a", "a">>] >>

MockGeneratedReportFixture ==
  [executiveSummary |-> "summary",
   sections |-> << [id |-> "s1", type |-> "text"], [id |-> "s2", type |-> "table"] >>,
   citations |-> << [source |-> "c1", excerpt |-> "e1", url |-> NULL] >>]

(***************************************************************************)
(* Locations and the routing table.                                        *)
(***************************************************************************)
ReportIds == {MockReportsFixture[i].id : i \in 1..Len(MockReportsFixture)}

Paths ==
  { <<>>, <<"auth">>, <<"dashboard">>, <<"create">>, <<"reports", "preview">>,
    <<"reports">>, <<"templates">>, <<"settings">>, <<"missing">> }
  \cup { <<"reports", id>> : id \in ReportIds }

\* the routing table, one record per <Route>, in the order written
routes ==
  << [path |-> <<>>, element |-> "Landing"],
     [path |-> <<"auth">>, element |-> "Auth"],
     [path |-> <<"dashboard">>, element |-> "Dashboard"],
     [path |-> <<"create">>, element |-> "CreateReport"],
     [path |-> <<"reports", "preview">>, element |-> "ReportPreview"],
     [path |-> <<"reports", ":id">>, element |-> "ReportPreview"],
     [path |-> <<"reports">>, element |-> "MyReports"],
     [path |-> <<"templates">>, element |-> "Templates"],
     [path |-> <<"settings">>, element |-> "Settings"],
     [path |-> <<"*">>, element |-> "NotFound"] >>

\* a route pattern against a location: * matches everything, :id any one
\* segment, any other segment itself
matchPath(pattern, path) ==
  \/ pattern = <<"*">>
  \/ /\ Len(pattern) = Len(path)
     /\ \A k \in DOMAIN pattern : pattern[k] = ":id" \/ pattern[k] = path[k]

\* segments a location is made of
PathSegments ==
  {"auth", "dashboard", "create", "reports", "preview", "templates", "settings",
   "missing"} \cup ReportIds

\* a routing table without the /reports/:id route
MatchRouteWithoutId(path) ==
  CASE path = <<>> -> "Landing"
    [] path = <<"auth">> -> "Auth"
    [] path = <<"dashboard">> -> "Dashboard"
    [] path = <<"create">> -> "CreateReport"
    [] path = <<"reports", "preview">> -> "ReportPreview"
    [] path = <<"reports">> -> "MyReports"
    [] path = <<"templates">> -> "Templates"
    [] path = <<"settings">> -> "Settings"
    [] OTHER -> "NotFound"

\* <Routes>: a static segment outranks :id, and * matches what nothing else does
MatchRoute(path) ==
  CASE path = <<>> -> "Landing"
    [] path = <<"auth">> -> "Auth"
    [] path = <<"dashboard">> -> "Dashboard"
    [] path = <<"create">> -> "CreateReport"
    [] path = <<"reports", "preview">> -> "ReportPreview"
    [] Len(path) = 2 /\ path[1] = "reports" /\ path[2] # "preview" -> "ReportPreview"
    [] path = <<"reports">> -> "MyReports"
    [] path = <<"templates">> -> "Templates"
    [] path = <<"settings">> -> "Settings"
    [] OTHER -> "NotFound"

VARIABLES
  route,              \* location.pathname, as segments
  navState,           \* location.state: <<>> is null, <<p>> is {prompt: p}
  history,            \* window.history: entries, current index, queued back()
  isAuthenticated,    \* the session flag of the AuthContext
  prompt,             \* CreateReport
  isGenerating,       \* CreateReport
  isPublishing,       \* ReportPreview
  isPublished,        \* ReportPreview
  isSaving,           \* Settings
  saved,              \* Settings
  searchQuery,        \* Templates
  selectedCategory,   \* Templates
  reportsQuery,       \* MyReports (its searchQuery)
  statusFilter,       \* MyReports
  timers,             \* pending setTimeout callbacks, oldest first
  mockReports,        \* fixture
  mockTemplates,      \* fixture
  mockGeneratedReport \* fixture

vars ==
  << route, navState, history, isAuthenticated, prompt, isGenerating, isPublishing,
     isPublished, isSaving, saved, searchQuery, selectedCategory, reportsQuery,
     statusFilter, timers, mockReports, mockTemplates,
     mockGeneratedReport >>

fixtures == << mockReports, mockTemplates, mockGeneratedReport >>
createState == << prompt, isGenerating >>
previewState == << isPublishing, isPublished >>
settingsState == << isSaving, saved >>
templatesState == << searchQuery, selectedCategory >>
reportsState == << reportsQuery, statusFilter >>

(***************************************************************************)
(* Rendering: what a route element returns for a value of the session flag.*)
(***************************************************************************)
AppViews ==
  {"Dashboard", "CreateReport", "ReportPreview", "MyReports", "Templates", "Settings"}

\* AppLayout without its gate
AppLayoutUngated(children, authenticated) ==
  [kind |-> "Shell", to |-> <<>>, shows |-> children]

\* AppLayout: the gate of the application shell
AppLayout(children, authenticated) ==
  IF ~authenticated
    THEN [kind |-> "Navigate", to |-> <<"auth">>, shows |-> "nothing"]
    ELSE [kind |-> "Shell", to |-> <<>>, shows |-> children]

\* a sign-in view that leaves for the dashboard whatever the flag is
AuthPageAlwaysLeaves(authenticated) ==
  [kind |-> "Navigate", to |-> <<"dashboard">>, shows |-> "nothing"]

\* Auth: the sign-in view leaves for the dashboard once the flag is set
AuthPage(authenticated) ==
  IF authenticated
    THEN [kind |-> "Navigate", to |-> <<"dashboard">>, shows |-> "nothing"]
    ELSE [kind |-> "Page", to |-> <<>>, shows |-> "Auth"]

\* the element of each route of App, rendered
RenderView(view, authenticated) ==
  CASE view = "Landing" -> [kind |-> "Page", to |-> <<>>, shows |-> "Landing"]
    [] view = "NotFound" -> [kind |-> "Page", to |-> <<>>, shows |-> "NotFound"]
    [] view = "Auth" -> AuthPage(authenticated)
    [] OTHER -> AppLayout(view, authenticated)

Rendered == RenderView(MatchRoute(route), isAuthenticated)

\* the view whose content is on screen, or "nothing"
Displayed == Rendered.shows

(***************************************************************************)
(* Component-local state lives as long as the component is mounted.        *)
(***************************************************************************)
Local ==
  [prompt |-> prompt, isGenerating |-> isGenerating,
   isPublishing |-> isPublishing, isPublished |-> isPublished,
   isSaving |-> isSaving, saved |-> saved,
   searchQuery |-> searchQuery, selectedCategory |-> selectedCategory,
   reportsQuery |-> reportsQuery, statusFilter |-> statusFilter,
   timers |-> timers]

\* the useState initial values of every view
InitialLocal ==
  [prompt |-> <<>>, isGenerating |-> FALSE,
   isPublishing |-> FALSE, isPublished |-> FALSE,
   isSaving |-> FALSE, saved |-> FALSE,
   searchQuery |-> <<>>, selectedCategory |-> NULL,
   reportsQuery |-> <<>>, statusFilter |-> "all",
   timers |-> <<>>]

\* the component whose closure a timer callback holds
Owner(kind) ==
  CASE kind = "generate" -> "CreateReport"
    [] kind = "publish" -> "ReportPreview"
    [] OTHER -> "Settings"

StateOf(view) ==
  CASE view = "CreateReport" -> {"prompt", "isGenerating"}
    [] view = "ReportPreview" -> {"isPublishing", "isPublished"}
    [] view = "Settings" -> {"isSaving", "saved"}
    [] view = "Templates" -> {"searchQuery", "selectedCategory"}
    [] view = "MyReports" -> {"reportsQuery", "statusFilter"}
    [] OTHER -> {}

\* unmounting a view discards its state; its pending callbacks keep running
\* but their setState calls no longer reach a mounted component
Unmount(view, loc) ==
  [f \in DOMAIN loc |->
     IF f \in StateOf(view) THEN InitialLocal[f]
     ELSE IF f = "timers"
       THEN [i \in DOMAIN loc.timers |->
               IF Owner(loc.timers[i].kind) = view
                 THEN [loc.timers[i] EXCEPT !.live = FALSE]
                 ELSE loc.timers[i]]
       ELSE loc[f]]

SetLocal(loc) ==
  /\ prompt' = loc.prompt
  /\ isGenerating' = loc.isGenerating
  /\ isPublishing' = loc.isPublishing
  /\ isPublished' = loc.isPublished
  /\ isSaving' = loc.isSaving
  /\ saved' = loc.saved
  /\ searchQuery' = loc.searchQuery
  /\ selectedCategory' = loc.selectedCategory
  /\ reportsQuery' = loc.reportsQuery
  /\ statusFilter' = loc.statusFilter
  /\ timers' = loc.timers

\* a navigation: the location changes, and the element of the old route is
\* unmounted unless the new route renders the same component
Goto(to, st, loc) ==
  /\ route' = to
  /\ navState' = st
  /\ SetLocal(IF MatchRoute(to) # MatchRoute(route)
                THEN Unmount(MatchRoute(route), loc)
                ELSE loc)

(***************************************************************************)
(* window.history. The session history is followed in HistorySpec only;    *)
(* nothing but Go Back of the not-found view reads it, and elsewhere it    *)
(* stays Unrecorded.                                                       *)
(***************************************************************************)
Unrecorded == [entries |-> <<>>, index |-> 0, pending |-> {}]

\* an entry: its location, its state, and whether a page load made it
Entry(path, st, load) == [path |-> path, state |-> st, load |-> load]

\* history.pushState: the entries after the current one are dropped
pushState(h, to, st) ==
  IF h.index = 0 THEN h
  ELSE [h EXCEPT !.entries = Append(SubSeq(h.entries, 1, h.index),
                                    Entry(to, st, FALSE)),
                 !.index = h.index + 1]

\* history.replaceState: the current entry gets the new location
replaceState(h, to, st) ==
  IF h.index = 0 THEN h
  ELSE [h EXCEPT !.entries[h.index] = [@ EXCEPT !.path = to, !.state = st]]

\* the document of entry a is not that of entry b, a before b
OtherDocument(h, a, b) == \E k \in (a + 1)..b : h.entries[k].load

InitViews ==
  /\ route \in Paths
  /\ navState = <<>>
  /\ isAuthenticated = FALSE
  /\ prompt = InitialLocal.prompt
  /\ isGenerating = InitialLocal.isGenerating
  /\ isPublishing = InitialLocal.isPublishing
  /\ isPublished = InitialLocal.isPublished
  /\ isSaving = InitialLocal.isSaving
  /\ saved = InitialLocal.saved
  /\ searchQuery = InitialLocal.searchQuery
  /\ selectedCategory = InitialLocal.selectedCategory
  /\ reportsQuery = InitialLocal.reportsQuery
  /\ statusFilter = InitialLocal.statusFilter
  /\ timers = InitialLocal.timers
  /\ mockReports = MockReportsFixture
  /\ mockTemplates = MockTemplatesFixture
  /\ mockGeneratedReport = MockGeneratedReportFixture

Init ==
  /\ InitViews
  /\ history = Unrecorded

(***************************************************************************)
(* CreateReport                                                            *)
(***************************************************************************)
\* "Generate a Q4 marketing performance report with campaign metrics and ROI analysis"
Suggestion1 ==
  <<
     "G", "e", "n", "e", "r", "a", "t", "e", " ", "a", " ", "Q", "4", " ",
     "m", "a", "r", "k", "e", "t", "i", "n", "g", " ", "p", "e", "r", "f",
     "o", "r", "m", "a", "n", "c", "e", " ", "r", "e", "p", "o", "r", "t",
     " ", "w", "i", "t", "h", " ", "c", "a", "m", "p", "a", "i", "g", "n",
     " ", "m", "e", "t", "r", "i", "c", "s", " ", "a", "n", "d", " ", "R",
     "O", "I", " ", "a", "n", "a", "l", "y", "s", "i", "s" >>

\* "Create an executive summary of our annual sales data with key insights"
Suggestion2 ==
  <<
     "C", "r", "e", "a", "t", "e", " ", "a", "n", " ", "e", "x", "e", "c",
     "u", "t", "i", "v", "e", " ", "s", "u", "m", "m", "a", "r", "y", " ",
     "o", "f", " ", "o", "u", "r", " ", "a", "n", "n", "u", "a", "l", " ",
     "s", "a", "l", "e", "s", " ", "d", "a", "t", "a", " ", "w", "i", "t",
     "h", " ", "k", "e", "y", " ", "i", "n", "s", "i", "g", "h", "t", "s" >>

\* "Analyze customer satisfaction survey results and identify improvement areas"
Suggestion3 ==
  <<
     "A", "n", "a", "l", "y", "z", "e", " ", "c", "u", "s", "t", "o", "m",
     "e", "r", " ", "s", "a", "t", "i", "s", "f", "a", "c", "t", "i", "o",
     "n", " ", "s", "u", "r", "v", "e", "y", " ", "r", "e", "s", "u", "l",
     "t", "s", " ", "a", "n", "d", " ", "i", "d", "e", "n", "t", "i", "f",
     "y", " ", "i", "m", "p", "r", "o", "v", "e", "m", "e", "n", "t", " ",
     "a", "r", "e", "a", "s" >>

\* "Prepare a competitive market analysis for the enterprise software sector"
Suggestion4 ==
  <<
     "P", "r", "e", "p", "a", "r", "e", " ", "a", " ", "c", "o", "m", "p",
     "e", "t", "i", "t", "i", "v", "e", " ", "m", "a", "r", "k", "e", "t",
     " ", "a", "n", "a", "l", "y", "s", "i", "s", " ", "f", "o", "r", " ",
     "t", "h", "e", " ", "e", "n", "t", "e", "r", "p", "r", "i", "s", "e",
     " ", "s", "o", "f", "t", "w", "a", "r", "e", " ", "s", "e", "c", "t",
     "o", "r" >>

suggestions == << Suggestion1, Suggestion2, Suggestion3, Suggestion4 >>

\* texts typed into the prompt area
TypedPrompts == { <<>>, <<" ">>, <<"a", " ">> }

\* the suggestion buttons that get clicked
ClickedSuggestions == { 1 }

\* a pending setTimeout callback; signedOut records, for a generation, that
\* the session was ended after the click that started it
Timer(kind, delay, text) ==
  [kind |-> kind, remaining |-> delay, live |-> TRUE, prompt |-> text,
   signedOut |-> FALSE]

RemoveAt(seq, i) == SubSeq(seq, 1, i - 1) \o SubSeq(seq, i + 1, Len(seq))

Due(i) == i \in DOMAIN timers /\ timers[i].remaining = 0

\* the Generate control disabled on a blank prompt only
GenerateDisabledBlankOnly == trim(prompt) = <<>>

\* the Generate control disabled on an empty prompt, not on a blank one
GenerateDisabledUntrimmed == prompt = <<>> \/ isGenerating

\* disabled={!prompt.trim() || isGenerating}
GenerateDisabled == trim(prompt) = <<>> \/ isGenerating

\* onChange of the text area
setPrompt(text) ==
  /\ Displayed = "CreateReport"
  /\ prompt' = text
  /\ UNCHANGED << route, navState, history, isAuthenticated, isGenerating, previewState,
                  settingsState, templatesState, reportsState, timers, fixtures >>

handleSuggestionClick(suggestion) ==
  /\ Displayed = "CreateReport"
  /\ prompt' = suggestion
  /\ UNCHANGED << route, navState, history, isAuthenticated, isGenerating, previewState,
                  settingsState, templatesState, reportsState, timers, fixtures >>

\* handleGenerate up to its await: a click on the enabled Generate control
handleGenerate ==
  /\ Displayed = "CreateReport"
  /\ ~GenerateDisabled
  /\ Len(timers) < MaxTimers
  /\ IF trim(prompt) = <<>>
       THEN UNCHANGED << isGenerating, timers >>
       ELSE /\ isGenerating' = TRUE
            /\ timers' = Append(timers, Timer("generate", GenerateDelay, prompt))
  /\ UNCHANGED << route, navState, history, isAuthenticated, prompt, previewState,
                  settingsState, templatesState, reportsState, fixtures >>

\* handleGenerate after its await, giving up when its view was left
handleGenerateResolvedIfMounted(i) ==
  /\ Due(i)
  /\ timers[i].kind = "generate"
  /\ IF timers[i].live
       THEN /\ Goto(<<"reports", "preview">>, << timers[i].prompt >>,
                    [Local EXCEPT !.isGenerating = FALSE,
                                  !.timers = RemoveAt(timers, i)])
            /\ history' = pushState(history, <<"reports", "preview">>,
                                    << timers[i].prompt >>)
       ELSE /\ timers' = RemoveAt(timers, i)
            /\ UNCHANGED << route, navState, history, createState, previewState,
                            settingsState, templatesState, reportsState >>
  /\ UNCHANGED << isAuthenticated, fixtures >>

\* handleGenerate after its await, navigating with the prompt of the text
\* area as it is when the timer fires
handleGenerateResolvedCurrentPrompt(i) ==
  /\ Due(i)
  /\ timers[i].kind = "generate"
  /\ Goto(<<"reports", "preview">>,
          << IF timers[i].live THEN prompt ELSE timers[i].prompt >>,
          [Local EXCEPT !.isGenerating = IF timers[i].live THEN FALSE ELSE @,
                        !.timers = RemoveAt(timers, i)])
  /\ history' = pushState(history, <<"reports", "preview">>,
                          << IF timers[i].live THEN prompt ELSE timers[i].prompt >>)
  /\ UNCHANGED << isAuthenticated, fixtures >>

\* handleGenerate after its await: the timer has fired
handleGenerateResolved(i) ==
  /\ Due(i)
  /\ timers[i].kind = "generate"
  /\ Goto(<<"reports", "preview">>, << timers[i].prompt >>,
          [Local EXCEPT !.isGenerating = IF timers[i].live THEN FALSE ELSE @,
                        !.timers = RemoveAt(timers, i)])
  /\ history' = pushState(history, <<"reports", "preview">>, << timers[i].prompt >>)
  /\ UNCHANGED << isAuthenticated, fixtures >>

(***************************************************************************)
(* ReportPreview                                                           *)
(***************************************************************************)
\* 'Q4 2024 Enterprise Performance Analysis'
DefaultPrompt ==
  <<
     "Q", "4", " ", "2", "0", "2", "4", " ", "E", "n", "t", "e", "r",
     "p", "r", "i", "s", "e", " ", "P", "e", "r", "f", "o", "r", "m",
     "a", "n", "c", "e", " ", "A", "n", "a", "l", "y", "s", "i", "s" >>

\* a slice that returns the whole text
sliceNothing(s, from, to) == s

\* String.prototype.slice(from, to) for 0 <= from <= to
slice(s, from, to) ==
  SubSeq(s, from + 1, IF to < Len(s) THEN to ELSE Len(s))

\* location.state?.prompt || 'Q4 2024 Enterprise Performance Analysis'
previewPrompt(st) ==
  IF st = <<>> \/ st[1] = <<>> THEN DefaultPrompt ELSE st[1]

\* "{prompt.slice(0, 50)}...": the text between the quotes of the
\* 'Generated from' line
GeneratedFromLine(st) == slice(previewPrompt(st), 0, 50) \o <<".", ".", ".">>

\* a preview that looks the report up by the :id of its route
ReportPreviewPageById(path, st) ==
  LET found == {i \in DOMAIN mockReports :
                  Len(path) = 2 /\ mockReports[i].id = path[2]}
  IN  [title |-> DefaultPrompt,
       generatedFrom |-> GeneratedFromLine(st),
       executiveSummary |->
         IF found = {} THEN mockGeneratedReport.executiveSummary
         ELSE mockReports[CHOOSE i \in found : TRUE].id,
       sections |-> mockGeneratedReport.sections,
       citations |-> mockGeneratedReport.citations]

\* what ReportPreview puts on the page at a location with a navigation
\* state: the heading, the 'Generated from' line and the report
ReportPreviewPage(path, st) ==
  [title |-> DefaultPrompt,
   generatedFrom |-> GeneratedFromLine(st),
   executiveSummary |-> mockGeneratedReport.executiveSummary,
   sections |-> mockGeneratedReport.sections,
   citations |-> mockGeneratedReport.citations]

\* the Publish control disabled once published only
PublishDisabledPublishedOnly == isPublished

\* disabled={isPublishing || isPublished}
PublishDisabled == isPublishing \/ isPublished

\* handlePublish up to its await
handlePublish ==
  /\ Displayed = "ReportPreview"
  /\ ~PublishDisabled
  /\ Len(timers) < MaxTimers
  /\ isPublishing' = TRUE
  /\ timers' = Append(timers, Timer("publish", PublishDelay, <<>>))
  /\ UNCHANGED << route, navState, history, isAuthenticated, createState, isPublished,
                  settingsState, templatesState, reportsState, fixtures >>

\* handlePublish after its await, also marking the previewed report published
handlePublishResolvedMarksReport(i) ==
  /\ Due(i)
  /\ timers[i].kind = "publish"
  /\ isPublishing' = IF timers[i].live THEN FALSE ELSE isPublishing
  /\ isPublished' = IF timers[i].live THEN TRUE ELSE isPublished
  /\ timers' = RemoveAt(timers, i)
  /\ mockReports' =
       [r \in DOMAIN mockReports |->
          IF timers[i].live /\ route = <<"reports", mockReports[r].id>>
            THEN [mockReports[r] EXCEPT !.status = "published"]
            ELSE mockReports[r]]
  /\ UNCHANGED << route, navState, history, isAuthenticated, createState, settingsState,
                  templatesState, reportsState, mockTemplates, mockGeneratedReport >>

\* handlePublish after its await, without its setIsPublishing(false)
handlePublishResolvedStillPublishing(i) ==
  /\ Due(i)
  /\ timers[i].kind = "publish"
  /\ isPublished' = IF timers[i].live THEN TRUE ELSE isPublished
  /\ timers' = RemoveAt(timers, i)
  /\ UNCHANGED << route, navState, history, isAuthenticated, createState, isPublishing,
                  settingsState, templatesState, reportsState, fixtures >>

\* handlePublish after its await
handlePublishResolved(i) ==
  /\ Due(i)
  /\ timers[i].kind = "publish"
  /\ isPublishing' = IF timers[i].live THEN FALSE ELSE isPublishing
  /\ isPublished' = IF timers[i].live THEN TRUE ELSE isPublished
  /\ timers' = RemoveAt(timers, i)
  /\ UNCHANGED << route, navState, history, isAuthenticated, createState, settingsState,
                  templatesState, reportsState, fixtures >>

(***************************************************************************)
(* Settings                                                                *)
(***************************************************************************)
\* the Save control never disabled
SaveDisabledNever == FALSE

\* disabled={isSaving}
SaveDisabled == isSaving

\* handleSave up to its await
handleSave ==
  /\ Displayed = "Settings"
  /\ ~SaveDisabled
  /\ Len(timers) < MaxTimers
  /\ isSaving' = TRUE
  /\ timers' = Append(timers, Timer("save", SaveDelay, <<>>))
  /\ UNCHANGED << route, navState, history, isAuthenticated, createState, previewState,
                  saved, templatesState, reportsState, fixtures >>

\* handleSave after its await, ending in a failed save
handleSaveResolvedFails(i) ==
  /\ Due(i)
  /\ timers[i].kind = "save"
  /\ isSaving' = IF timers[i].live THEN FALSE ELSE isSaving
  /\ timers' = RemoveAt(timers, i)
  /\ UNCHANGED << route, navState, history, isAuthenticated, createState, previewState,
                  saved, templatesState, reportsState, fixtures >>

\* handleSave after its await: it starts the timer that resets saved
handleSaveResolved(i) ==
  /\ Due(i)
  /\ timers[i].kind = "save"
  /\ isSaving' = IF timers[i].live THEN FALSE ELSE isSaving
  /\ saved' = IF timers[i].live THEN TRUE ELSE saved
  /\ timers' = Append(RemoveAt(timers, i),
                      [Timer("savedReset", SavedResetDelay, <<>>)
                         EXCEPT !.live = timers[i].live])
  /\ UNCHANGED << route, navState, history, isAuthenticated, createState, previewState,
                  templatesState, reportsState, fixtures >>

\* () => setSaved(false)
savedReset(i) ==
  /\ Due(i)
  /\ timers[i].kind = "savedReset"
  /\ saved' = IF timers[i].live THEN FALSE ELSE saved
  /\ timers' = RemoveAt(timers, i)
  /\ UNCHANGED << route, navState, history, isAuthenticated, createState, previewState,
                  isSaving, templatesState, reportsState, fixtures >>

\* 500 ms pass; a due callback runs before time moves on
Tick ==
  /\ timers # <<>>
  /\ \A i \in DOMAIN timers : timers[i].remaining > 0
  /\ timers' = [i \in DOMAIN timers |->
                  [timers[i] EXCEPT !.remaining = @ - 1]]
  /\ UNCHANGED << route, navState, history, isAuthenticated, createState, previewState,
                  settingsState, templatesState, reportsState, fixtures >>

(***************************************************************************)
(* Templates                                                               *)
(***************************************************************************)
RECURSIVE Distinct(_)
\* [...new Set(xs)]: the distinct values in order of first occurrence
Distinct(xs) ==
  IF xs = <<>> THEN <<>>
  ELSE LET front == Distinct(SubSeq(xs, 1, Len(xs) - 1))
           last == xs[Len(xs)]
       IN  IF \E i \in DOMAIN front : front[i] = last
             THEN front
             ELSE Append(front, last)

\* one button per template, without the Set
categoriesOfEachTemplate == [i \in DOMAIN mockTemplates |-> mockTemplates[i].category]

categories == Distinct([i \in DOMAIN mockTemplates |-> mockTemplates[i].category])

\* the search of the templates view with the query left in the case typed
TemplateMatchesSearchCaseTyped(template) ==
  \/ includes(toLowerCase(template.name), searchQuery)
  \/ includes(toLowerCase(template.description), searchQuery)

TemplateMatchesSearch(template) ==
  \/ includes(toLowerCase(template.name), toLowerCase(searchQuery))
  \/ includes(toLowerCase(template.description), toLowerCase(searchQuery))

\* the category test without its "no category selected" case
TemplateMatchesCategoryStrict(template) ==
  template.category = selectedCategory

TemplateMatchesCategory(template) ==
  Falsy(selectedCategory) \/ template.category = selectedCategory

TemplateMatches(template) ==
  TemplateMatchesSearch(template) /\ TemplateMatchesCategory(template)

\* mockTemplates.filter(...)
filteredTemplates == SelectSeq(mockTemplates, TemplateMatches)

\* {filteredTemplates.map(...)}: one card per listed template, by its key
TemplateCards == [i \in DOMAIN filteredTemplates |-> filteredTemplates[i].id]

\* {filteredTemplates.length === 0 && ...}
TemplatesEmptyStateShown == Len(filteredTemplates) = 0

\* onChange of the templates search box
setSearchQuery(q) ==
  /\ Displayed = "Templates"
  /\ searchQuery' = q
  /\ UNCHANGED << route, navState, history, isAuthenticated, createState, previewState,
                  settingsState, selectedCategory, reportsState, timers, fixtures >>

\* the All Categories button (NULL) and one button per category
setSelectedCategory(category) ==
  /\ Displayed = "Templates"
  /\ category = NULL \/ \E i \in DOMAIN categories : categories[i] = category
  /\ selectedCategory' = category
  /\ UNCHANGED << route, navState, history, isAuthenticated, createState, previewState,
                  settingsState, searchQuery, reportsState, timers, fixtures >>

(***************************************************************************)
(* MyReports                                                               *)
(***************************************************************************)
StatusFilters == {"all", "published", "draft"}

\* the search of the my-reports view comparing the title in the case stored
ReportMatchesSearchCaseStored(report) ==
  includes(report.title, toLowerCase(reportsQuery))

ReportMatchesSearch(report) ==
  includes(toLowerCase(report.title), toLowerCase(reportsQuery))

ReportMatchesStatus(report) ==
  statusFilter = "all" \/ report.status = statusFilter

ReportMatches(report) == ReportMatchesSearch(report) /\ ReportMatchesStatus(report)

\* mockReports.filter(...)
filteredReports == SelectSeq(mockReports, ReportMatches)

\* a header that counts the reports of the fixture
ReportsHeaderCountUnfiltered == Len(mockReports)

\* {filteredReports.length} Reports
ReportsHeaderCount == Len(filteredReports)

\* {filteredReports.length === 0 ? ... : ...}: the "No reports found" branch
ReportsEmptyStateShown == Len(filteredReports) = 0

\* the other branch: one row per listed report, by its key
ReportRows ==
  IF Len(filteredReports) = 0 THEN <<>>
  ELSE [i \in DOMAIN filteredReports |-> filteredReports[i].id]

\* onChange of the reports search box
setReportsQuery(q) ==
  /\ Displayed = "MyReports"
  /\ reportsQuery' = q
  /\ UNCHANGED << route, navState, history, isAuthenticated, createState, previewState,
                  settingsState, templatesState, statusFilter, timers, fixtures >>

setStatusFilter(f) ==
  /\ Displayed = "MyReports"
  /\ statusFilter' = f
  /\ UNCHANGED << route, navState, history, isAuthenticated, createState, previewState,
                  settingsState, templatesState, reportsQuery, timers, fixtures >>

\* the items of a listed report's menu that carry no handler
MenuItems == {"Edit Report", "Export PDF", "Delete Report"}

DropdownMenuItem(item) ==
  /\ Displayed = "MyReports"
  /\ filteredReports # <<>>
  /\ item \in MenuItems
  /\ UNCHANGED << route, navState, history, isAuthenticated, createState, previewState,
                  settingsState, templatesState, reportsState, timers, fixtures >>

(***************************************************************************)
(* Links, the sidebar and the session                                      *)
(***************************************************************************)
\* navItems of the sidebar
navItems ==
  << <<"dashboard">>, <<"create">>, <<"reports">>, <<"templates">>, <<"settings">> >>

\* an item active on every location below its path
isActiveBelow(pathname, item) ==
  Len(item) <= Len(pathname) /\ SubSeq(pathname, 1, Len(item)) = item

\* const isActive = location.pathname === item.path
isActive(pathname, item) == pathname = item

\* the items of the sidebar highlighted at a location
ActiveItems(pathname) ==
  {i \in DOMAIN navItems : isActive(pathname, navItems[i])}

ReportLinks(reports) == { <<"reports", reports[i].id>> : i \in DOMAIN reports }

\* the <Link>s of the page on screen
PageLinks ==
  CASE Displayed = "Landing" -> { <<>>, <<"auth">> }
    [] Displayed = "NotFound" -> { <<"dashboard">> }
    [] Displayed = "Dashboard" ->
         { <<"create">>, <<"templates">>, <<"reports">> }
           \cup ReportLinks(SubSeq(mockReports, 1, 3))
    [] Displayed = "ReportPreview" -> { <<"create">> }
    [] Displayed = "MyReports" -> ReportLinks(filteredReports)
    [] OTHER -> {}

Links ==
  PageLinks \cup
    (IF Rendered.kind = "Shell" THEN {navItems[i] : i \in DOMAIN navItems} ELSE {})

\* a click on a <Link>: the location changes and carries no state; a link
\* to the current location replaces the entry instead of pushing one
FollowLink(to) ==
  /\ to \in Links
  /\ Goto(to, <<>>, Local)
  /\ history' = IF to = route THEN replaceState(history, to, <<>>)
                             ELSE pushState(history, to, <<>>)
  /\ UNCHANGED << isAuthenticated, fixtures >>

\* a redirect that goes to the landing page whatever the element asks for
RedirectToLanding ==
  /\ Rendered.kind = "Navigate"
  /\ Goto(<<>>, <<>>, Local)
  /\ history' = replaceState(history, <<>>, <<>>)
  /\ UNCHANGED << isAuthenticated, fixtures >>

\* <Navigate to=... replace />, run by the effect of the render that returned it
Redirect ==
  /\ Rendered.kind = "Navigate"
  /\ Goto(Rendered.to, <<>>, Local)
  /\ history' = replaceState(history, Rendered.to, <<>>)
  /\ UNCHANGED << isAuthenticated, fixtures >>

\* login of the AuthContext, from the form of the sign-in view
login ==
  /\ Displayed = "Auth"
  /\ isAuthenticated' = TRUE
  /\ UNCHANGED << route, navState, history, createState, previewState, settingsState,
                  templatesState, reportsState, timers, fixtures >>

\* logout of the AuthContext, from the Sign Out button of the sidebar
logout ==
  /\ Rendered.kind = "Shell"
  /\ isAuthenticated' = FALSE
  /\ timers' = [i \in DOMAIN timers |->
                  [timers[i] EXCEPT !.signedOut = @ \/ timers[i].kind = "generate"]]
  /\ UNCHANGED << route, navState, history, createState, previewState, settingsState,
                  templatesState, reportsState, fixtures >>

(***************************************************************************)
(* The client                                                              *)
(***************************************************************************)
TimerFires ==
  \E i \in 1..MaxTimers :
    \/ handleGenerateResolved(i)
    \/ handlePublishResolved(i)
    \/ handleSaveResolved(i)
    \/ savedReset(i)

Next ==
  \/ \E to \in Paths : FollowLink(to)
  \/ Redirect
  \/ login
  \/ logout
  \/ \E text \in TypedPrompts : setPrompt(text)
  \/ \E i \in ClickedSuggestions : handleSuggestionClick(suggestions[i])
  \/ handleGenerate
  \/ handlePublish
  \/ handleSave
  \/ \E q \in SampleQueries : setSearchQuery(q)
  \/ \E c \in {NULL} \cup {mockTemplates[i].category : i \in DOMAIN mockTemplates} :
       setSelectedCategory(c)
  \/ \E q \in SampleQueries : setReportsQuery(q)
  \/ \E f \in StatusFilters : setStatusFilter(f)
  \/ \E item \in MenuItems : DropdownMenuItem(item)
  \/ TimerFires
  \/ Tick

Spec == Init /\ [][Next]_vars

(***************************************************************************)
(* The list views on their own: every search text up to MaxQueryLen, in a  *)
(* signed-in session with no timer pending.                                *)
(***************************************************************************)
FilterInit ==
  /\ Init
  /\ route \in { <<"templates">>, <<"reports">> }

FilterNext ==
  \/ login
  \/ Redirect
  \/ \E to \in { <<"templates">>, <<"reports">> } : FollowLink(to)
  \/ \E q \in Queries : setSearchQuery(q)
  \/ \E c \in {NULL} \cup {mockTemplates[i].category : i \in DOMAIN mockTemplates} :
       setSelectedCategory(c)
  \/ \E q \in Queries : setReportsQuery(q)
  \/ \E f \in StatusFilters : setStatusFilter(f)
  \/ \E item \in MenuItems : DropdownMenuItem(item)

FilterSpec == FilterInit /\ [][FilterNext]_vars

(***************************************************************************)
(* NotFound and the session history: locations entered in the address bar, *)
(* links, redirects and Go Back, with the history followed.                *)
(***************************************************************************)
\* a location entered in the address bar: a new document, whose components
\* start from their initial state; whether the session flag outlives the
\* document is the AuthContext's affair
loadPage(path) ==
  /\ history.index > 0
  /\ route' = path
  /\ navState' = <<>>
  /\ SetLocal(InitialLocal)
  /\ isAuthenticated' \in {FALSE, isAuthenticated}
  /\ history' = [history EXCEPT
                   !.entries = Append(SubSeq(history.entries, 1, history.index),
                                      Entry(path, <<>>, TRUE)),
                   !.index = history.index + 1]
  /\ UNCHANGED fixtures

\* <Link to="/" onClick={() => window.history.back()}>: a click runs
\* onClick, which queues the traversal, and then the link's own handler,
\* which pushes "/"
GoBack ==
  /\ Displayed = "NotFound"
  /\ history.index > 0
  /\ Goto(<<>>, <<>>, Local)
  /\ history' = [pushState(history, <<>>, <<>>) EXCEPT
                   !.pending = @ \cup {[delta |-> -1, from |-> history.index]}]
  /\ UNCHANGED << isAuthenticated, fixtures >>

\* the queued traversal takes effect: the browser counts its delta from the
\* entry that is current now, or from the entry that was current when
\* back() was called; without an entry there nothing happens, and an entry
\* of another document is loaded anew
Traverse ==
  \E t \in history.pending :
    \E target \in {history.index + t.delta, t.from + t.delta} :
      LET h == [history EXCEPT !.pending = @ \ {t}]
      IN  IF target < 1
            THEN /\ history' = h
                 /\ UNCHANGED << route, navState, isAuthenticated, createState,
                                 previewState, settingsState, templatesState,
                                 reportsState, timers, fixtures >>
            ELSE /\ history' = [h EXCEPT !.index = target]
                 /\ IF OtherDocument(history, target, history.index)
                      THEN /\ route' = history.entries[target].path
                           /\ navState' = history.entries[target].state
                           /\ SetLocal(InitialLocal)
                           /\ isAuthenticated' \in {FALSE, isAuthenticated}
                      ELSE /\ Goto(history.entries[target].path,
                                   history.entries[target].state, Local)
                           /\ UNCHANGED isAuthenticated
                 /\ UNCHANGED fixtures

\* the session starts with the entry of the location loaded
HistoryInit ==
  /\ InitViews
  /\ history = [entries |-> << Entry(route, <<>>, TRUE) >>, index |-> 1,
                pending |-> {}]

\* the user acts when no traversal is queued, and the history has room
Settled == history.pending = {} /\ history.index < MaxEntries

HistoryNext ==
  \/ \E to \in Paths : Settled /\ FollowLink(to)
  \/ \E path \in Paths : Settled /\ loadPage(path)
  \/ Redirect
  \/ Settled /\ login
  \/ Settled /\ logout
  \/ Settled /\ GoBack
  \/ Traverse

HistorySpec == HistoryInit /\ [][HistoryNext]_vars

\* the event loop runs every due callback and effect, and time passes
FairSpec ==
  /\ Spec
  /\ WF_vars(TimerFires)
  /\ WF_vars(Tick)
  /\ WF_vars(Redirect)

(***************************************************************************)
(* Properties                                                              *)
(***************************************************************************)
\* timers of a kind that have not fired yet
Pending(kind) == Cardinality({i \in DOMAIN timers : timers[i].kind = kind})

\* those of them whose component is still mounted
LivePending(kind) ==
  Cardinality({i \in DOMAIN timers : timers[i].kind = kind /\ timers[i].live})

PreviewPath == <<"reports", "preview">>

\* C1: in every reachable state, while the session flag is false no
\* application view shows its content: each of the six, rendered through
\* AppLayout with the flag false, is a redirect to /auth.
C1_GateHidesAppViews ==
  /\ ~isAuthenticated => Displayed \notin AppViews
  /\ \A p \in Paths :
       MatchRoute(p) \in AppViews =>
         /\ RenderView(MatchRoute(p), FALSE).kind = "Navigate"
         /\ RenderView(MatchRoute(p), FALSE).to = <<"auth">>
         /\ RenderView(MatchRoute(p), FALSE).shows = "nothing"
         /\ RenderView(MatchRoute(p), TRUE).shows = MatchRoute(p)

\* a sign-out in the middle of a save: the settings route with the flag false
C1_Witness ==
  /\ ~isAuthenticated
  /\ MatchRoute(route) = "Settings"
  /\ isSaving

\* the steps of the generate operation, common to C2 as stated and as amended
C2_Step ==
  LET before == Pending("generate")
      after == Pending("generate")'
  IN  /\ after \in {before - 1, before, before + 1}
      \* an accepted click: enabled control, one timer more, pending
      /\ after = before + 1 =>
           /\ Displayed = "CreateReport"
           /\ trim(prompt) # <<>>
           /\ ~isGenerating
           /\ isGenerating'
           /\ route' = route
           /\ LivePending("generate") = 0
           /\ LivePending("generate")' = 1
      \* a timer fires: one navigation to the preview, nothing left pending
      \* in the create view
      /\ after = before - 1 =>
           /\ route' = PreviewPath
           /\ navState' # <<>>
           /\ ~isGenerating'
      \* a prompt reaches the preview by a firing timer only
      /\ (navState' # <<>> /\ navState' # navState) => after = before - 1
      \* pending means disabled, with exactly one timer of this mounting
      /\ isGenerating => GenerateDisabled /\ LivePending("generate") = 1
      \* pending ends by leaving the create view
      /\ (isGenerating /\ ~isGenerating') => MatchRoute(route') # "CreateReport"

\* C2 as stated: every accepted Generate click goes through pending then
\* resolved once, with one navigation to /reports/preview, and no second
\* generation can be started before the first resolves.
C2_Original ==
  [][ /\ C2_Step
      /\ Pending("generate")' = Pending("generate") + 1 => Pending("generate") = 0
    ]_vars

\* C2 as amended: every accepted Generate click starts one timer and makes
\* the view pending, the timer's firing issues one navigation to
\* /reports/preview, and while isGenerating is true the control is disabled,
\* so that within one mounting of the create view no second generation
\* starts before the first resolves.
C2_OncePerClickPerMounting == [][C2_Step]_vars

\* a navigation issued by one generation while a later one is still pending
C2_Witness ==
  /\ route = PreviewPath
  /\ navState # <<>>
  /\ Pending("generate") = 1

\* the steps of the publish operation, common to C3 as stated and as amended
C3_Step ==
  LET before == Pending("publish")
      after == Pending("publish")'
      liveBefore == LivePending("publish")
      liveAfter == LivePending("publish")'
  IN  /\ after \in {before - 1, before, before + 1}
      /\ after = before + 1 =>
           /\ Displayed = "ReportPreview"
           /\ ~isPublishing /\ ~isPublished
           /\ isPublishing' /\ ~isPublished'
           /\ liveBefore = 0 /\ liveAfter = 1
      \* the timer of the mounted preview fires: resolved
      /\ (after = before - 1 /\ liveAfter = liveBefore - 1) =>
           /\ isPublishing /\ ~isPublishing' /\ isPublished'
      \* the timer of a preview that was left fires: no effect
      /\ (after = before - 1 /\ liveAfter = liveBefore) =>
           UNCHANGED << isPublishing, isPublished >>
      /\ (~isPublished /\ isPublished') => (isPublishing /\ after = before - 1)
      /\ isPublishing => PublishDisabled /\ liveBefore = 1
      /\ (isPublishing /\ ~isPublishing') =>
           isPublished' \/ MatchRoute(route') # "ReportPreview"

\* C3 as stated: every Publish click goes through pending then resolved
\* once, the firing timer sets isPublished, and no second publish can be
\* started while one is pending.
C3_Original ==
  [][ /\ C3_Step
      /\ Pending("publish")' = Pending("publish") + 1 => Pending("publish") = 0
      /\ Pending("publish")' = Pending("publish") - 1 => isPublished'
    ]_vars

\* C3 as amended: within one mounting of the preview every Publish click
\* goes through pending then resolved once and the control is disabled
\* meanwhile; the timer of a preview that was left fires without effect.
C3_OncePerClickPerMounting == [][C3_Step]_vars

\* a resolved publish on screen
C3_Witness ==
  /\ Displayed = "ReportPreview"
  /\ isPublished
  /\ ~isPublishing

\* text contains q at some offset, letters compared without regard to case
ContainsIgnoringCase(text, q) ==
  \E k \in 0..(Len(text) - Len(q)) :
    \A j \in 1..Len(q) : LowerChar(text[k + j]) = LowerChar(q[j])

\* listed holds exactly the records of all that satisfy P, in the order of all
IsSelection(listed, all, P(_)) ==
  /\ \A i \in DOMAIN all :
       P(all[i]) <=> \E j \in DOMAIN listed : listed[j] = all[i]
  /\ \A j \in DOMAIN listed : \E i \in DOMAIN all : all[i] = listed[j]
  /\ \A j1, j2 \in DOMAIN listed :
       j1 < j2 =>
         \E i1, i2 \in DOMAIN all :
           i1 < i2 /\ all[i1] = listed[j1] /\ all[i2] = listed[j2]

C4_Wanted(template) ==
  /\ \/ ContainsIgnoringCase(template.name, searchQuery)
     \/ ContainsIgnoringCase(template.description, searchQuery)
  /\ selectedCategory # NULL => template.category = selectedCategory

\* C4: for every search query and selected category the templates view
\* lists exactly the templates of the fixture, in fixture order, whose name
\* or description contains the query case-insensitively and whose category
\* is the selected one when one is selected.
C4_TemplatesListed ==
  /\ mockTemplates = MockTemplatesFixture
  /\ IsSelection(filteredTemplates, MockTemplatesFixture, C4_Wanted)

\* "AB" with Sales selected lists the one Sales template, found through the
\* "aBb" of its description, though three templates match the search
C4_Witness ==
  /\ Displayed = "Templates"
  /\ searchQuery = <<"A", "B">>
  /\ selectedCategory = "Sales"
  /\ Len(filteredTemplates) = 1
  /\ filteredTemplates[1].id = "t2"

C5_Wanted(report) ==
  /\ ContainsIgnoringCase(report.title, reportsQuery)
  /\ statusFilter # "all" => report.status = statusFilter

\* C5: for every search query and status filter the my-reports view lists
\* exactly the reports of the fixture, in fixture order, whose title
\* contains the query case-insensitively and whose status is the filter's
\* unless the filter is 'all'.
C5_ReportsListed ==
  /\ mockReports = MockReportsFixture
  /\ statusFilter \in StatusFilters
  /\ IsSelection(filteredReports, MockReportsFixture, C5_Wanted)

\* "Ab" among the drafts lists reports 2 and 4, in that order
C5_Witness ==
  /\ Displayed = "MyReports"
  /\ reportsQuery = <<"A", "b">>
  /\ statusFilter = "draft"
  /\ Len(filteredReports) = 2
  /\ filteredReports[1].id = "2"
  /\ filteredReports[2].id = "4"

C6_SearchAlone(template) ==
  \/ ContainsIgnoringCase(template.name, searchQuery)
  \/ ContainsIgnoringCase(template.description, searchQuery)

\* C6: a selected category restricts the listed templates to that category;
\* with 'All Categories' selected the list is what the search term alone
\* selects, and with an empty search term too it is the whole fixture in
\* its order.
C6_CategoryFilter ==
  /\ selectedCategory = NULL \/ \E i \in DOMAIN categories : categories[i] = selectedCategory
  /\ selectedCategory # NULL =>
       \A j \in DOMAIN filteredTemplates :
         filteredTemplates[j].category = selectedCategory
  /\ selectedCategory = NULL =>
       IsSelection(filteredTemplates, MockTemplatesFixture, C6_SearchAlone)
  /\ (selectedCategory = NULL /\ searchQuery = <<>>) =>
       filteredTemplates = MockTemplatesFixture

\* Marketing selected, no search: the two Marketing templates of the four
C6_Witness ==
  /\ Displayed = "Templates"
  /\ selectedCategory = "Marketing"
  /\ searchQuery = <<>>
  /\ Len(filteredTemplates) = 2
  /\ Len(mockTemplates) = 4

\* C7 as stated: the simulated timers never race: in any view, at any
\* moment, at most one timer started by a generate, publish or save action
\* of that view is pending, the settings view included.
C7_Original ==
  \A view \in AppViews :
    Cardinality({i \in DOMAIN timers :
                   Owner(timers[i].kind) = view /\ timers[i].live}) <= 1

\* the nonblank prompts a generation can carry
CarriedPrompts ==
  {p \in TypedPrompts \cup {suggestions[i] : i \in ClickedSuggestions} :
     trim(p) # <<>>}

GeneratePendingWith(p) ==
  \E i \in DOMAIN timers : timers[i].kind = "generate" /\ timers[i].prompt = p

\* C8 as stated: under fairness of the timers every started generate
\* eventually issues its navigation, every started publish eventually
\* reaches isPublished = true and every started save eventually reaches
\* saved = true.
C8_Original ==
  /\ \A p \in CarriedPrompts :
       GeneratePendingWith(p) ~> (route = PreviewPath /\ navState = <<p>>)
  /\ isPublishing ~> isPublished
  /\ isSaving ~> saved

\* C8 as amended: under fairness of the timers every started generate
\* eventually issues its navigation; every started publish reaches
\* isPublished = true and every started save reaches saved = true unless
\* its view is left before the timer fires; a pending publish or save of
\* the view on screen never ends in any other way than success.
C8_SucceedsWhileMounted ==
  /\ \A p \in CarriedPrompts :
       GeneratePendingWith(p) ~> (route = PreviewPath /\ navState = <<p>>)
  /\ isPublishing ~> (isPublished \/ MatchRoute(route) # "ReportPreview")
  /\ isSaving ~> (saved \/ MatchRoute(route) # "Settings")
  /\ [][ /\ (isPublishing /\ ~isPublishing' /\ MatchRoute(route') = "ReportPreview")
             => isPublished'
         /\ (isSaving /\ ~isSaving' /\ MatchRoute(route') = "Settings")
             => saved'
       ]_vars

\* a save that has succeeded and is shown as such
C8_Witness ==
  /\ Displayed = "Settings"
  /\ saved
  /\ ~isSaving

\* the step takes the view off the screen for another one
Leaves(view) == MatchRoute(route) = view /\ MatchRoute(route') # view

\* later is the timer earlier, `elapsed` ticks on; its component stays
\* mounted unless the step leaves its view
SameTimer(later, earlier, elapsed) ==
  /\ later.kind = earlier.kind
  /\ later.prompt = earlier.prompt
  /\ later.remaining = earlier.remaining - elapsed
  /\ later.live = (earlier.live /\ ~Leaves(Owner(earlier.kind)))

SameTimers(later, earlier, elapsed) ==
  /\ Len(later) = Len(earlier)
  /\ \A k \in DOMAIN earlier : SameTimer(later[k], earlier[k], elapsed)

\* the step runs the due callback i and removes it
Fires(i) ==
  /\ Due(i)
  /\ Len(timers') >= Len(timers) - 1
  /\ SameTimers(SubSeq(timers', 1, Len(timers) - 1), RemoveAt(timers, i), 0)

\* the step runs no callback: every pending timer stays, its delay running
KeepsTimers ==
  /\ Len(timers') >= Len(timers)
  /\ \E elapsed \in {0, 1} :
       SameTimers(SubSeq(timers', 1, Len(timers)), timers, elapsed)

\* no step cancels a timer, and a firing generate timer navigates
C9_NoCancel ==
  /\ KeepsTimers \/ \E i \in DOMAIN timers : Fires(i)
  /\ \A i \in DOMAIN timers :
       (Fires(i) /\ ~KeepsTimers /\ timers[i].kind = "generate") =>
         /\ route' = PreviewPath
         /\ navState' = << timers[i].prompt >>

\* C9 as stated: nothing the user does while a generation is pending stops
\* the navigation to /reports/preview when its timer fires, and nothing
\* stops isPublished from being set when the timer of a publish fires.
C9_Original ==
  [][ /\ C9_NoCancel
      /\ Pending("publish")' = Pending("publish") - 1 => isPublished'
    ]_vars

\* C9 as amended: no user action removes or delays a pending timer; the
\* firing timer of a generation always issues the navigation to
\* /reports/preview with its prompt; the firing timer of a publish sets
\* isPublished if the preview it belongs to is still mounted, and changes
\* nothing if that preview was left meanwhile.
C9_NoCancellation ==
  [][ /\ C9_NoCancel
      /\ \A i \in DOMAIN timers :
           (Fires(i) /\ ~KeepsTimers /\ timers[i].kind = "publish") =>
             IF timers[i].live
               THEN isPublished' /\ ~isPublishing'
               ELSE UNCHANGED << isPublishing, isPublished >>
    ]_vars

\* signed out while generating: the navigation was issued all the same
C9_Witness ==
  /\ ~isAuthenticated
  /\ route = PreviewPath
  /\ navState # <<>>

\* C10: no operation creates, changes or removes a fixture record; a
\* completed publish leaves every report's status as it was.
C10_FixturesUnchanged ==
  /\ mockReports = MockReportsFixture
  /\ mockTemplates = MockTemplatesFixture
  /\ mockGeneratedReport = MockGeneratedReportFixture

\* the draft report 2, previewed and published: still a draft in the fixture
C10_Witness ==
  /\ route = <<"reports", "2">>
  /\ isPublished
  /\ mockReports[2].id = "2"
  /\ mockReports[2].status = "draft"

\* the steps of the save operation, common to C11 as stated and as amended
C11_Step ==
  LET before == Pending("save")
      after == Pending("save")'
      liveBefore == LivePending("save")
      liveAfter == LivePending("save")'
  IN  /\ after \in {before - 1, before, before + 1}
      \* the Save control is disabled exactly while isSaving is true
      /\ SaveDisabled <=> isSaving
      /\ isSaving => liveBefore = 1
      \* a click: idle or saved to saving
      /\ after = before + 1 =>
           /\ Displayed = "Settings"
           /\ ~isSaving /\ isSaving'
           /\ saved' = saved
           /\ liveBefore = 0 /\ liveAfter = 1
      \* the delay of the mounted view elapses: saving to saved, and the
      \* timer that resets saved is started
      /\ (after = before - 1 /\ liveAfter = liveBefore - 1) =>
           /\ isSaving /\ ~isSaving' /\ saved'
           /\ LivePending("savedReset")' = LivePending("savedReset") + 1
      \* the delay of a view that was left elapses: no effect
      /\ (after = before - 1 /\ liveAfter = liveBefore) =>
           UNCHANGED << isSaving, saved >>
      /\ (~saved /\ saved') => (isSaving /\ after = before - 1)
      \* saved goes back to false by a reset timer, or with the view
      /\ (saved /\ ~saved') =>
           \/ LivePending("savedReset")' = LivePending("savedReset") - 1
           \/ MatchRoute(route') # "Settings"
      /\ saved => LivePending("savedReset") >= 1
      /\ (isSaving /\ ~isSaving') =>
           saved' \/ MatchRoute(route') # "Settings"

\* C11 as stated: every click on Save Changes goes idle, saving, saved and
\* back to idle: isSaving is true from the click until the delay elapses,
\* saved becomes true when the delay elapses, and the saved flag always
\* returns to false.
C11_Original ==
  /\ [][ /\ C11_Step
         /\ Pending("save")' = Pending("save") - 1 => saved'
         /\ (isSaving /\ ~isSaving') => Pending("save")' = Pending("save") - 1
       ]_vars
  /\ saved ~> ~saved

\* C11 as amended: while the settings view stays mounted every click on
\* Save Changes goes idle, saving, saved and back to idle, the Save control
\* being disabled exactly while isSaving is true; a view that is left
\* forgets both flags and its timers fire without effect; the saved flag
\* always returns to false, and stays false once no save is pending or
\* started any more.
C11_SaveCycleWhileMounted ==
  /\ [][C11_Step]_vars
  /\ saved ~> ~saved
  /\ <>[](Pending("save") = 0) => <>[](~saved)

\* saved is shown and its reset timer is due
C11_Witness ==
  /\ Displayed = "Settings"
  /\ saved
  /\ ~isSaving
  /\ \E i \in DOMAIN timers :
       timers[i].kind = "savedReset" /\ timers[i].live /\ timers[i].remaining = 0

\* the step runs the due generate callback i of a generation during which
\* the user signed out
FiresSignedOutGenerate(i) ==
  /\ Fires(i)
  /\ ~KeepsTimers
  /\ timers[i].kind = "generate"
  /\ timers[i].signedOut
  /\ \A k \in 1..(Len(timers) - 1) :
       timers'[k].signedOut = RemoveAt(timers, i)[k].signedOut

\* C12 as stated: if the user signs out while a generation is pending, the
\* preview content is never displayed for that generation.
C12_Original ==
  [][ \A i \in DOMAIN timers :
        FiresSignedOutGenerate(i) => Displayed' # "ReportPreview" ]_vars

\* C12 as amended: if the user is signed out when the timer of a generation
\* fires, the navigation to /reports/preview displays no preview content:
\* the preview redirects to /auth, the only place the signed-out preview
\* route is left for, and the user ends on the sign-in view.
C12_SignedOutAtFiring ==
  /\ [][ /\ (Pending("generate")' = Pending("generate") - 1 /\ ~isAuthenticated) =>
              /\ route' = PreviewPath
              /\ Displayed' = "nothing"
              /\ Rendered'.kind = "Navigate"
              /\ Rendered'.to = <<"auth">>
         /\ (route = PreviewPath /\ ~isAuthenticated /\ route' # route) =>
              /\ route' = <<"auth">>
              /\ Displayed' = "Auth"
       ]_vars
  /\ (route = PreviewPath /\ ~isAuthenticated) ~> (route = <<"auth">>)

\* signed out on the sign-in view, the timer of the generation due
C12_Witness ==
  /\ ~isAuthenticated
  /\ route = <<"auth">>
  /\ \E i \in DOMAIN timers :
       Due(i) /\ timers[i].kind = "generate" /\ timers[i].signedOut

\* every location of up to MaxPathLen segments
AllPaths == TextsUpTo(PathSegments, MaxPathLen)

\* the views of the routes other than * whose pattern matches the location
MatchedViews(path) ==
  {routes[i].element :
     i \in {j \in DOMAIN routes : routes[j].path # <<"*">> /\ matchPath(routes[j].path, path)}}

\* the view the claim names for a location
C13_Expected(path) ==
  CASE path = <<>> -> "Landing"
    [] path = <<"auth">> -> "Auth"
    [] path = <<"dashboard">> -> "Dashboard"
    [] path = <<"create">> -> "CreateReport"
    [] path = <<"reports">> -> "MyReports"
    [] path = <<"templates">> -> "Templates"
    [] path = <<"settings">> -> "Settings"
    [] Len(path) = 2 /\ path[1] = "reports" -> "ReportPreview"
    [] OTHER -> "NotFound"

\* the routing table against the views expected of it
RoutingTableTotal ==
  \A path \in AllPaths :
       /\ Cardinality(MatchedViews(path)) <= 1
       /\ MatchedViews(path) = {} => MatchRoute(path) = "NotFound"
       /\ MatchedViews(path) # {} => MatchedViews(path) = {MatchRoute(path)}
       /\ MatchRoute(path) = C13_Expected(path)
       /\ \A authenticated \in BOOLEAN :
            LET view == MatchRoute(path)
                rendered == RenderView(view, authenticated)
            IN  /\ view \in {"Landing", "NotFound"} =>
                     rendered.kind = "Page" /\ rendered.shows = view
                /\ view = "Auth" =>
                     /\ rendered = AuthPage(authenticated)
                     /\ rendered.to # <<"auth">>
                     /\ ~authenticated => rendered.shows = "Auth"
                /\ view \in AppViews <=> view \notin {"Landing", "NotFound", "Auth"}
                /\ view \in AppViews => rendered = AppLayout(view, authenticated)

NavStates == {<<>>, << <<>> >>} \cup { <<p>> : p \in CarriedPrompts }

\* the locations of the preview
PreviewPaths == {path \in Paths : MatchRoute(path) = "ReportPreview"}

\* a page without its 'Generated from' line
ReportContent(page) ==
  [title |-> page.title, executiveSummary |-> page.executiveSummary,
   sections |-> page.sections, citations |-> page.citations]

\* C14: the preview shows the same fixed generated report for every prompt
\* and every report id: two previews that differ in the prompt or in the
\* :id show the same heading, summary, sections and citations, those of
\* the fixture, and differ at most in the 'Generated from' line, which
\* depends on the prompt alone.
C14_SameReport ==
  /\ \A path \in PreviewPaths : \A st \in NavStates :
       \* the report is that of /reports/preview without a prompt
       /\ ReportContent(ReportPreviewPage(path, st)) =
            ReportContent(ReportPreviewPage(PreviewPath, <<>>))
       \* and the whole page that of /reports/preview with the same prompt
       /\ ReportPreviewPage(path, st) = ReportPreviewPage(PreviewPath, st)
  /\ Displayed = "ReportPreview" =>
       /\ route \in PreviewPaths
       /\ navState \in NavStates
       /\ ReportPreviewPage(route, navState).executiveSummary =
            MockGeneratedReportFixture.executiveSummary
       /\ ReportPreviewPage(route, navState).sections =
            MockGeneratedReportFixture.sections
       /\ ReportPreviewPage(route, navState).citations =
            MockGeneratedReportFixture.citations

\* report 4 opened from a list shows what the preview of a generation with
\* the first suggestion shows, but for the 'Generated from' line
C14_Witness ==
  /\ Displayed = "ReportPreview"
  /\ route = <<"reports", "4">>
  /\ navState = <<>>
  /\ ReportContent(ReportPreviewPage(route, navState)) =
       ReportContent(ReportPreviewPage(PreviewPath, << Suggestion1 >>))
  /\ ReportPreviewPage(route, navState).generatedFrom #
       ReportPreviewPage(PreviewPath, << Suggestion1 >>).generatedFrom

\* what a location renders for a value of the session flag
RenderedAt(path, authenticated) == RenderView(MatchRoute(path), authenticated)

\* the redirects of every location for either value of the session flag
RedirectsAtMostOnce ==
  \A path \in AllPaths : \A authenticated \in BOOLEAN :
    LET rendered == RenderedAt(path, authenticated)
    IN  /\ rendered.kind = "Navigate" <=>
             \/ ~authenticated /\ MatchRoute(path) \in AppViews
             \/ authenticated /\ MatchRoute(path) = "Auth"
        /\ (rendered.kind = "Navigate" /\ ~authenticated) =>
             /\ rendered.to = <<"auth">>
             /\ RenderedAt(rendered.to, authenticated).kind = "Page"
             /\ RenderedAt(rendered.to, authenticated).shows = "Auth"
        /\ (rendered.kind = "Navigate" /\ authenticated) =>
             /\ rendered.to = <<"dashboard">>
             /\ RenderedAt(rendered.to, authenticated).kind = "Shell"
             /\ RenderedAt(rendered.to, authenticated).shows = "Dashboard"

\* C15: redirect chains have length at most one and never loop: for either
\* value of the session flag and any location, a signed-out application
\* view redirects to /auth, which shows the sign-in view; a signed-in
\* /auth redirects to /dashboard, which shows the dashboard; nothing else
\* redirects; and a step that carries out a redirect with the flag
\* unchanged arrives where nothing redirects.
C15_RedirectOnce ==
  /\ []RedirectsAtMostOnce
  /\ [][ (/\ Rendered.kind = "Navigate"
          /\ route' = Rendered.to
          /\ navState' = <<>>
          /\ isAuthenticated' = isAuthenticated) =>
            /\ Rendered'.kind # "Navigate"
            /\ Displayed' = IF isAuthenticated THEN "Dashboard" ELSE "Auth"
       ]_vars

\* signed out in the middle of a save, redirected once, and at rest on the
\* sign-in view
C15_Witness ==
  /\ ~isAuthenticated
  /\ route = <<"auth">>
  /\ Displayed = "Auth"
  /\ Pending("save") = 1

\* C16: the prompt handed to the preview by a generation is the text of the
\* prompt area when Generate was clicked: the click puts that text into the
\* pending navigation, an edit or a suggestion click made in the create
\* view meanwhile changes the view's prompt and leaves every pending timer
\* as it is, and the firing timer navigates with the text it carries.
C16_PromptCapturedAtClick ==
  [][ /\ Pending("generate")' = Pending("generate") + 1 =>
           /\ Len(timers') = Len(timers) + 1
           /\ timers'[Len(timers')].kind = "generate"
           /\ timers'[Len(timers')].prompt = prompt
           /\ prompt' = prompt
      /\ (prompt' # prompt /\ route' = route) =>
           /\ Displayed = "CreateReport"
           /\ timers' = timers
      /\ \A i \in DOMAIN timers :
           (Fires(i) /\ ~KeepsTimers /\ timers[i].kind = "generate") =>
             navState' = << timers[i].prompt >>
    ]_vars

\* the create view, generating, its prompt cleared since the click
C16_Witness ==
  /\ Displayed = "CreateReport"
  /\ isGenerating
  /\ prompt = <<>>
  /\ \E i \in DOMAIN timers :
       /\ timers[i].kind = "generate"
       /\ timers[i].live
       /\ timers[i].prompt = Suggestion1

\* C17: a generate request with an empty or whitespace-only prompt has no
\* effect: the Generate control is disabled whenever the trimmed prompt is
\* empty, and from such a state no step sets isGenerating, starts a
\* generate timer or issues a navigation with a prompt other than that of
\* an earlier generation; no pending generation carries a blank prompt.
C17_BlankPromptRejected ==
  /\ [](trim(prompt) = <<>> => GenerateDisabled)
  /\ [](\A i \in DOMAIN timers :
          timers[i].kind = "generate" => trim(timers[i].prompt) # <<>>)
  /\ [][ trim(prompt) = <<>> =>
           /\ Pending("generate")' <= Pending("generate")
           /\ isGenerating' => isGenerating
           /\ (navState' # navState /\ navState' # <<>>) =>
                Pending("generate")' = Pending("generate") - 1
       ]_vars

\* a whitespace-only prompt in the create view: nothing started
C17_Witness ==
  /\ Displayed = "CreateReport"
  /\ prompt = <<" ">>
  /\ GenerateDisabled
  /\ ~isGenerating
  /\ timers = <<>>

\* C18: within one mounting of the report preview isPublished never goes
\* from true back to false, isPublishing and isPublished are never both
\* true, and the Publish control is disabled from the first click onward,
\* so that the mounted preview never has more than one publish timer and
\* starts none once one was started.
C18_PublishedMonotone ==
  /\ [](~(isPublishing /\ isPublished))
  /\ [](PublishDisabled <=> (isPublishing \/ isPublished))
  /\ [](LivePending("publish") = IF isPublishing THEN 1 ELSE 0)
  /\ [][ (MatchRoute(route) = "ReportPreview" /\ MatchRoute(route') = "ReportPreview") =>
           /\ isPublished => isPublished'
           /\ PublishDisabled => PublishDisabled'
           /\ PublishDisabled => Pending("publish")' <= Pending("publish")
       ]_vars

\* a generated report, published
C18_Witness ==
  /\ Displayed = "ReportPreview"
  /\ route = PreviewPath
  /\ navState # <<>>
  /\ isPublished
  /\ PublishDisabled

\* the first n characters of a text, all of it when it is shorter
FirstChars(text, n) ==
  [k \in 1..(IF Len(text) < n THEN Len(text) ELSE n) |-> text[k]]

\* the 'Generated from' line the claim expects for a navigation state
C19_Expected(st) ==
  (IF st = <<>> THEN DefaultPrompt
   ELSE IF st[1] = <<>> THEN DefaultPrompt
   ELSE FirstChars(st[1], 50)) \o <<".", ".", ".">>

\* the line for every navigation state, absent and empty prompts included
GeneratedFromAsExpected ==
  \A st \in NavStates :
    LET line == GeneratedFromLine(st)
    IN  /\ line = C19_Expected(st)
        /\ Len(line) <= 53
        /\ SubSeq(line, Len(line) - 2, Len(line)) = <<".", ".", ".">>
        /\ previewPrompt(st) = DefaultPrompt <=>
             (st = <<>> \/ st[1] = <<>> \/ st[1] = DefaultPrompt)

\* C19: the 'Generated from' line shows the first 50 characters of the
\* prompt carried by the navigation state, always followed by '...'; the
\* default title stands in only when the navigation carries no prompt or
\* an empty one; and a navigation state exists only on /reports/preview,
\* put there by a generation, with a non-blank prompt, so that such a
\* preview never shows the default.
C19_GeneratedFromLine ==
  /\ []GeneratedFromAsExpected
  /\ [](navState \in NavStates /\
         ReportPreviewPage(route, navState).generatedFrom = C19_Expected(navState))
  /\ [](navState # <<>> =>
          /\ route = PreviewPath
          /\ trim(navState[1]) # <<>>
          /\ previewPrompt(navState) = navState[1]
          /\ previewPrompt(navState) # DefaultPrompt)
  /\ [][ navState' # navState =>
           \/ navState' = <<>>
           \/ /\ Pending("generate")' = Pending("generate") - 1
              /\ route' = PreviewPath
       ]_vars

\* the preview of a generation with the first suggestion: 50 of its 81
\* characters and the dots
C19_Witness ==
  /\ Displayed = "ReportPreview"
  /\ navState = << Suggestion1 >>
  /\ Len(Suggestion1) = 81
  /\ Len(ReportPreviewPage(route, navState).generatedFrom) = 53

\* the highlighted items of every location
SidebarActiveAsExpected ==
  \A path \in AllPaths :
    /\ \A i \in DOMAIN navItems : i \in ActiveItems(path) <=> path = navItems[i]
    /\ Cardinality(ActiveItems(path)) <= 1
    /\ path \in { <<"dashboard">>, <<"create">>, <<"reports">>, <<"templates">>,
                   <<"settings">> } =>
         /\ Cardinality(ActiveItems(path)) = 1
         /\ \A i \in ActiveItems(path) : navItems[i] = path
    /\ (Len(path) = 2 /\ path[1] = "reports") => ActiveItems(path) = {}

\* C20: a navigation item of the sidebar is highlighted if and only if the
\* current path equals its path: at most one item is active on any
\* location, exactly one on /dashboard, /create, /reports, /templates and
\* /settings, and none on /reports/preview or /reports/<id>; so a sidebar
\* on screen has one active item unless the view is the report preview.
C20_SidebarActive ==
  /\ SidebarActiveAsExpected
  /\ Rendered.kind = "Shell" =>
       /\ Cardinality(ActiveItems(route)) <= 1
       /\ ActiveItems(route) = {} <=> Displayed = "ReportPreview"
       /\ \A i \in ActiveItems(route) : MatchRoute(navItems[i]) = Displayed

\* report 1 on screen, the sidebar without an active item
C20_Witness ==
  /\ Rendered.kind = "Shell"
  /\ route = <<"reports", "1">>
  /\ ActiveItems(route) = {}
  /\ ActiveItems(<<"reports">>) # {}

\* C21: in the my-reports and templates views, for every search query and
\* filter selection, the empty-state message is shown if and only if no
\* record is listed, which is when no record of the fixture passes the
\* search and the filter, and the count in the my-reports header is the
\* number of reports listed.
C21_EmptyStateAndCount ==
  /\ TemplatesEmptyStateShown <=> TemplateCards = <<>>
  /\ TemplatesEmptyStateShown <=>
       ~ \E i \in DOMAIN MockTemplatesFixture : C4_Wanted(MockTemplatesFixture[i])
  /\ ReportsEmptyStateShown <=> ReportRows = <<>>
  /\ ReportsEmptyStateShown <=>
       ~ \E i \in DOMAIN MockReportsFixture : C5_Wanted(MockReportsFixture[i])
  /\ ReportsHeaderCount = Len(ReportRows)
  /\ ReportsHeaderCount =
       Cardinality({i \in DOMAIN MockReportsFixture : C5_Wanted(MockReportsFixture[i])})

\* "bb" is in no report title: no row, the message, and a count of 0,
\* while the templates view lists its four cards
C21_Witness ==
  /\ Displayed = "MyReports"
  /\ reportsQuery = <<"b", "b">>
  /\ ReportsEmptyStateShown
  /\ ReportRows = <<>>
  /\ ReportsHeaderCount = 0
  /\ ~TemplatesEmptyStateShown
  /\ Len(TemplateCards) = 4

\* the place of a category's first template in the fixture
C22_FirstOccurrence(c) ==
  CHOOSE i \in DOMAIN MockTemplatesFixture :
    /\ MockTemplatesFixture[i].category = c
    /\ \A j \in 1..(i - 1) : MockTemplatesFixture[j].category # c

\* C22: the category buttons of the templates view are exactly the
\* distinct categories of the template fixture, each once, in order of
\* first occurrence; a shown category selected with an empty search term
\* lists at least one template, all of that category; and selectedCategory
\* is always null or one of the shown categories.
C22_CategoryButtons ==
  /\ {categories[i] : i \in DOMAIN categories} =
       {MockTemplatesFixture[i].category : i \in DOMAIN MockTemplatesFixture}
  /\ \A i, j \in DOMAIN categories :
       i < j => /\ categories[i] # categories[j]
                /\ C22_FirstOccurrence(categories[i]) < C22_FirstOccurrence(categories[j])
  /\ \A i \in DOMAIN categories :
       /\ categories[i] # NULL
       /\ \E k \in DOMAIN mockTemplates : mockTemplates[k].category = categories[i]
  /\ selectedCategory = NULL \/ \E i \in DOMAIN categories : categories[i] = selectedCategory
  /\ (selectedCategory # NULL /\ searchQuery = <<>>) =>
       /\ Len(filteredTemplates) >= 1
       /\ ~TemplatesEmptyStateShown
       /\ \A k \in DOMAIN filteredTemplates :
            filteredTemplates[k].category = selectedCategory

\* three buttons for four templates, Marketing once though two templates
\* have it; Finance, the last button, selected with no search lists its
\* one template
C22_Witness ==
  /\ Displayed = "Templates"
  /\ categories = <<"Marketing", "Sales", "Finance">>
  /\ selectedCategory = "Finance"
  /\ searchQuery = <<>>
  /\ Len(filteredTemplates) = 1
  /\ filteredTemplates[1].id = "t4"

\* C23 as stated: activating 'Go Back' on the not-found view leaves the
\* user on the previously visited history entry: once the history.back()
\* of the click handler and the navigation to "/" of the same click's link
\* have both taken effect, the current entry is the one before the
\* not-found entry and its location is on screen.
C23_Original ==
  [][ \A t \in history.pending :
        (history'.pending = {} /\ t.from > 1) =>
          /\ history'.index = t.from - 1
          /\ route' = history.entries[t.from - 1].path
    ]_vars

====
